---------------------------- MODULE Spec2Model ----------------------------
(***************************************************************************)
(* Tic-tac-toe service: the Game state machine (src/src/models.py), the    *)
(* Game and Player registries (src/src/factory.py) and the request         *)
(* handlers that drive them (src/src/routes.py).                           *)
(*                                                                         *)
(* Scheduling.  Handlers are coroutines.  A handler runs without           *)
(* interruption from one `await` to the next, and every `await` is a point *)
(* where other handlers may run.  An action of this module is therefore    *)
(* one block of a handler: the code between two consecutive awaits,        *)
(* including the body of the awaited registry method (which holds the      *)
(* registry lock from its first statement to its return and contains no    *)
(* await of its own).  `async with lock` is an await whose block can run   *)
(* only when the lock is free.                                             *)
(*                                                                         *)
(* Objects.  A Game object is identified by its id (ids are never reused), *)
(* a Player object by its id (no handler removes a player, so the registry *)
(* constructs at most one object per id).  Timestamps (createdAt,          *)
(* updatedAt, Move.timestamp) are wall-clock values that no branch reads   *)
(* and are left out.                                                       *)
(***************************************************************************)
EXTENDS Integers, Sequences, FiniteSets, TLC

\* ------------------------------------------------------------------------
\* Program constants and the model's bounds
\* ------------------------------------------------------------------------

MATRIX_SIZE == 3

\* Number of concurrently running request handlers.
NumTasks == 2

\* create_game requests are accepted by the service model while
\* next_id <= MaxGames, and by the registry model while
\* next_id <= MaxRegistryGames.
MaxGames == 1
MaxRegistryGames == 3

None == "None"

PENDING == "pending"
IN_PROGRESS == "in_progress"
COMPLETE == "complete"

Tasks == 1..NumTasks
NoTask == 0

Idx == 0..(MATRIX_SIZE - 1)

\* ------------------------------------------------------------------------
\* models.py: PlayerStats, Player
\* ------------------------------------------------------------------------

\* A float that is the quotient of two counters is kept as the pair
\* <<numerator, denominator>>; the literal 0 is <<0, 1>>.
Zero == <<0, 1>>

PlayerStats ==
    [gamesPlayed |-> 0, gamesWon |-> 0, gamesLost |-> 0, gamesDrawn |-> 0,
     totalMoves |-> 0, averageMovesPerWin |-> Zero, winRate |-> Zero,
     efficiency |-> Zero]

Player(id, name, email) ==
    [id |-> id, name |-> name, email |-> email, stats |-> PlayerStats]

\* Player.update_stats: the three-way branch that picks the outcome counter.
OutcomeCounters(s, won, draw) ==
    IF won THEN [s EXCEPT !.gamesWon = @ + 1]
    ELSE IF draw THEN [s EXCEPT !.gamesDrawn = @ + 1]
    ELSE [s EXCEPT !.gamesLost = @ + 1]

\* DerivedMetrics that averages the moves over the games played.
DerivedMetrics_MovesPerGame(s) ==
    IF s.gamesWon > 0
    THEN [s EXCEPT !.averageMovesPerWin = <<s.totalMoves, s.gamesPlayed>>,
                   !.efficiency = <<s.totalMoves, s.gamesPlayed>>,
                   !.winRate = <<s.gamesWon, s.gamesPlayed>>]
    ELSE [s EXCEPT !.averageMovesPerWin = <<0, 1>>,
                   !.efficiency = <<0, 1>>,
                   !.winRate = <<0, 1>>]

\* Player.update_stats: the derived metrics recomputed from the counters.
DerivedMetrics(s) ==
    IF s.gamesWon > 0
    THEN [s EXCEPT !.averageMovesPerWin = <<s.totalMoves, s.gamesWon>>,
                   !.efficiency = <<s.totalMoves, s.gamesWon>>,
                   !.winRate = <<s.gamesWon, s.gamesPlayed>>]
    ELSE [s EXCEPT !.averageMovesPerWin = Zero,
                   !.efficiency = Zero,
                   !.winRate = Zero]

\* Player.update_stats(won, moves, draw) applied to a stats record.
update_stats(s, won, moves, draw) ==
    LET s1 == [s EXCEPT !.gamesPlayed = @ + 1, !.totalMoves = @ + moves]
    IN DerivedMetrics(OutcomeCounters(s1, won, draw))

\* ------------------------------------------------------------------------
\* models.py: Move, Game
\* ------------------------------------------------------------------------

EmptyBoard == [r \in Idx |-> [c \in Idx |-> ""]]

\* Game constructed as already started.
Game_InProgress(id, name) ==
    [id |-> id, name |-> name, status |-> IN_PROGRESS, board |-> EmptyBoard,
     players |-> <<>>, currentPlayerId |-> None, winnerId |-> None,
     moves |-> <<>>, lock |-> NoTask]

\* Game(id=game_id, name=name, status=Status.PENDING): every other field
\* takes its default.  `lock` holds the task that owns the asyncio.Lock.
Game(id, name) ==
    [id |-> id, name |-> name, status |-> PENDING, board |-> EmptyBoard,
     players |-> <<>>, currentPlayerId |-> None, winnerId |-> None,
     moves |-> <<>>, lock |-> NoTask]

\* Move(id=f"m-{n}", gameId=str(game.id), playerId, row, col): the id is kept
\* as the number n that follows "m-".
Move(n, gameId, playerId, row, col) ==
    [id |-> n, gameId |-> gameId, playerId |-> playerId, row |-> row, col |-> col]

\* check_if_game_is_over without its full-board test.
check_if_game_is_over_NoTie(b) ==
    LET n == MATRIX_SIZE
        rowWin(i) == b[i][0] # "" /\ \A j \in 0..(n-1) : b[i][j] = b[i][0]
        colWin(j) == b[0][j] # "" /\ \A i \in 0..(n-1) : b[i][j] = b[0][j]
    IN  IF \E i \in 0..(n-1) : rowWin(i)
        THEN <<"Row", CHOOSE i \in 0..(n-1) :
                        rowWin(i) /\ \A k \in 0..(i-1) : ~rowWin(k)>>
        ELSE IF \E j \in 0..(n-1) : colWin(j)
        THEN <<"Column", CHOOSE j \in 0..(n-1) :
                        colWin(j) /\ \A k \in 0..(j-1) : ~colWin(k)>>
        ELSE IF b[0][0] # "" /\ \A i \in 0..(n-1) : b[i][i] = b[0][0]
        THEN <<"Main diagonal">>
        ELSE IF b[0][n-1] # "" /\ \A i \in 0..(n-1) : b[i][n-1-i] = b[0][n-1]
        THEN <<"Anti-diagonal">>
        ELSE <<>>

\* check_if_game_is_over without its anti-diagonal test.
check_if_game_is_over_NoAntiDiagonal(b) ==
    LET n == MATRIX_SIZE
        rowWin(i) == b[i][0] # "" /\ \A j \in 0..(n-1) : b[i][j] = b[i][0]
        colWin(j) == b[0][j] # "" /\ \A i \in 0..(n-1) : b[i][j] = b[0][j]
    IN  IF \E i \in 0..(n-1) : rowWin(i)
        THEN <<"Row", CHOOSE i \in 0..(n-1) :
                        rowWin(i) /\ \A k \in 0..(i-1) : ~rowWin(k)>>
        ELSE IF \E j \in 0..(n-1) : colWin(j)
        THEN <<"Column", CHOOSE j \in 0..(n-1) :
                        colWin(j) /\ \A k \in 0..(j-1) : ~colWin(k)>>
        ELSE IF b[0][0] # "" /\ \A i \in 0..(n-1) : b[i][i] = b[0][0]
        THEN <<"Main diagonal">>
        ELSE IF \A i \in 0..(n-1) : \A j \in 0..(n-1) : b[i][j] # ""
        THEN <<"TIE">>
        ELSE <<>>

\* check_if_game_is_over with the full-board test ahead of the line tests.
check_if_game_is_over_TieFirst(b) ==
    LET n == MATRIX_SIZE
        rowWin(i) == b[i][0] # "" /\ \A j \in 0..(n-1) : b[i][j] = b[i][0]
        colWin(j) == b[0][j] # "" /\ \A i \in 0..(n-1) : b[i][j] = b[0][j]
    IN  IF \A i \in 0..(n-1) : \A j \in 0..(n-1) : b[i][j] # ""
        THEN <<"TIE">>
        ELSE IF \E i \in 0..(n-1) : rowWin(i)
        THEN <<"Row", CHOOSE i \in 0..(n-1) :
                        rowWin(i) /\ \A k \in 0..(i-1) : ~rowWin(k)>>
        ELSE IF \E j \in 0..(n-1) : colWin(j)
        THEN <<"Column", CHOOSE j \in 0..(n-1) :
                        colWin(j) /\ \A k \in 0..(j-1) : ~colWin(k)>>
        ELSE IF b[0][0] # "" /\ \A i \in 0..(n-1) : b[i][i] = b[0][0]
        THEN <<"Main diagonal">>
        ELSE IF b[0][n-1] # "" /\ \A i \in 0..(n-1) : b[i][n-1-i] = b[0][n-1]
        THEN <<"Anti-diagonal">>
        ELSE <<>>

\* Game.check_if_game_is_over: rows, then columns, then the two diagonals,
\* then the full-board test; None when play continues.
check_if_game_is_over(b) ==
    LET n == MATRIX_SIZE
        rowWin(i) == b[i][0] # "" /\ \A j \in 0..(n-1) : b[i][j] = b[i][0]
        colWin(j) == b[0][j] # "" /\ \A i \in 0..(n-1) : b[i][j] = b[0][j]
    IN  IF \E i \in 0..(n-1) : rowWin(i)
        THEN <<"Row", CHOOSE i \in 0..(n-1) :
                        rowWin(i) /\ \A k \in 0..(i-1) : ~rowWin(k)>>
        ELSE IF \E j \in 0..(n-1) : colWin(j)
        THEN <<"Column", CHOOSE j \in 0..(n-1) :
                        colWin(j) /\ \A k \in 0..(j-1) : ~colWin(k)>>
        ELSE IF b[0][0] # "" /\ \A i \in 0..(n-1) : b[i][i] = b[0][0]
        THEN <<"Main diagonal">>
        ELSE IF b[0][n-1] # "" /\ \A i \in 0..(n-1) : b[i][n-1-i] = b[0][n-1]
        THEN <<"Anti-diagonal">>
        ELSE IF \A i \in 0..(n-1) : \A j \in 0..(n-1) : b[i][j] # ""
        THEN <<"TIE">>
        ELSE <<>>

\* PlayerIndex with 0 in place of the -1 of an absent player.
PlayerIndex_AbsentIsFirst(players, player_id) ==
    IF \E i \in 1..Len(players) : players[i] = player_id
    THEN (CHOOSE i \in 1..Len(players) :
            players[i] = player_id /\ \A k \in 1..(i-1) : players[k] # player_id) - 1
    ELSE 0

\* next((i for i, player in enumerate(players) if player.id == player_id), -1)
PlayerIndex(players, player_id) ==
    IF \E i \in 1..Len(players) : players[i] = player_id
    THEN (CHOOSE i \in 1..Len(players) :
            players[i] = player_id /\ \A k \in 1..(i-1) : players[k] # player_id) - 1
    ELSE -1

\* MovesInGame that counts the moves of every player.
MovesInGame_AllPlayers(moves, player_id) == Len(moves)

\* sum(1 for move in self.moves if move.playerId == player.id)
MovesInGame(moves, player_id) ==
    Cardinality({i \in 1..Len(moves) : moves[i].playerId = player_id})


\* MoveCheck without its fourth test (the occupancy of the target cell).
MoveCheck_NoOccupancyTest(g, player_id, row, col) ==
    IF g.status # IN_PROGRESS THEN "not_active"
    ELSE IF g.currentPlayerId # player_id THEN "not_your_turn"
    ELSE IF row < 0 \/ row >= MATRIX_SIZE \/ col < 0 \/ col >= MATRIX_SIZE
    THEN "out_of_range"
    ELSE ""

\* Game.make_move, checks 1-4 (status, turn, coordinate range, occupancy),
\* in the order of the code; the name of the first check that rejects, or
\* "" when all four pass.
MoveCheck(g, player_id, row, col) ==
    IF g.status # IN_PROGRESS THEN "not_active"
    ELSE IF g.currentPlayerId # player_id THEN "not_your_turn"
    ELSE IF row < 0 \/ row >= MATRIX_SIZE \/ col < 0 \/ col >= MATRIX_SIZE
    THEN "out_of_range"
    ELSE IF g.board[row][col] # "" THEN "occupied"
    ELSE ""

\* Symbol that gives every participant "X".
Symbol_AlwaysX(player_index) == "X"

\* symbol = "X" if player_index == 0 else "O"
Symbol(player_index) == IF player_index = 0 THEN "X" ELSE "O"

\* Winner that names the acting player after a tie as well.
Winner_AlsoOnTie(over, player_id) == player_id

\* self.winnerId = player_id if over != "TIE" else None
Winner(over, player_id) == IF over # <<"TIE">> THEN player_id ELSE None

\* self.players[1].id if self.currentPlayerId == self.players[0].id
\* else self.players[0].id
NextPlayer(g) ==
    IF g.currentPlayerId = g.players[1] THEN g.players[2] ELSE g.players[1]

\* ApplyMove that numbers the Move by the length of the history before it.
ApplyMove_IdFromOldLength(g, player_id, row, col) ==
    [g EXCEPT !.board[row][col] = Symbol(PlayerIndex(g.players, player_id)),
              !.moves = Append(@, Move(Len(g.moves), g.id, player_id, row, col))]

\* ApplyMove that appends the Move and loses the write of the cell.
ApplyMove_NoBoardWrite(g, player_id, row, col) ==
    [g EXCEPT !.moves = Append(@, Move(Len(g.moves) + 1, g.id, player_id, row, col))]

\* ApplyMove that writes the cell and appends nothing to the history.
ApplyMove_NoAppend(g, player_id, row, col) ==
    [g EXCEPT !.board[row][col] = Symbol(PlayerIndex(g.players, player_id))]

\* The write of an accepted move: the cell and the appended Move.
ApplyMove(g, player_id, row, col) ==
    [g EXCEPT !.board[row][col] = Symbol(PlayerIndex(g.players, player_id)),
              !.moves = Append(@, Move(Len(g.moves) + 1, g.id, player_id, row, col))]

\* make_move that looks the caller up among the participants before the
\* four checks.
make_move_MembershipFirst(g, player_id, row, col) ==
    IF PlayerIndex(g.players, player_id) = -1
    THEN [ret |-> "ValueError", game |-> g, log |-> ""]
    ELSE IF MoveCheck(g, player_id, row, col) # ""
    THEN [ret |-> "False", game |-> g, log |-> MoveCheck(g, player_id, row, col)]
    ELSE LET g1 == ApplyMove(g, player_id, row, col)
             over == check_if_game_is_over(g1.board)
         IN  IF over # <<>>
             THEN [ret |-> "end_game", log |-> "",
                   game |-> [g1 EXCEPT !.status = COMPLETE,
                                       !.winnerId = Winner(over, player_id)]]
             ELSE [ret |-> "True", log |-> "",
                   game |-> [g1 EXCEPT !.currentPlayerId = NextPlayer(g1)]]

\* Game.make_move from the acquisition of the lock to its first await or
\* return.  ret is "False", "True", "ValueError", or "end_game" when the
\* move was terminal and the coroutine is at `await self.end_game()` with
\* the lock still held; log is the check whose logger.error call ran.
make_move(g, player_id, row, col) ==
    IF MoveCheck(g, player_id, row, col) # ""
    THEN [ret |-> "False", game |-> g, log |-> MoveCheck(g, player_id, row, col)]
    ELSE IF PlayerIndex(g.players, player_id) = -1
    THEN [ret |-> "ValueError", game |-> g, log |-> ""]
    ELSE LET g1 == ApplyMove(g, player_id, row, col)
             over == check_if_game_is_over(g1.board)
         IN  IF over # <<>>
             THEN [ret |-> "end_game", log |-> "",
                   game |-> [g1 EXCEPT !.status = COMPLETE,
                                       !.winnerId = Winner(over, player_id)]]
             ELSE [ret |-> "True", log |-> "",
                   game |-> [g1 EXCEPT !.currentPlayerId = NextPlayer(g1)]]

\* won = player.id == self.winnerId
Won(g, player_id) == player_id = g.winnerId

\* draw = won is None: `won` is the bool computed above, never None.
Draw(won) == FALSE

\* Game.end_game: update_stats for every entry of self.players, in order.
\* P maps player ids to Player objects.
RECURSIVE end_game(_, _, _)
end_game(g, P, i) ==
    IF i > Len(g.players) THEN P
    ELSE LET id == g.players[i]
             moves_in_game == MovesInGame(g.moves, id)
             won == Won(g, id)
             draw == Draw(won)
         IN  end_game(g,
                      [P EXCEPT ![id].stats = update_stats(@, won, moves_in_game, draw)],
                      i + 1)

\* JoinLocked that gives the first turn to the player who joined last.
JoinLocked_TurnToJoiner(g, player_id) ==
    LET g1 == IF \A i \in 1..Len(g.players) : g.players[i] # player_id
              THEN [g EXCEPT !.players = Append(@, player_id)]
              ELSE g
    IN  IF Len(g1.players) = 2
        THEN [g1 EXCEPT !.status = IN_PROGRESS, !.currentPlayerId = g1.players[2]]
        ELSE g1

\* JoinLocked without the test that the player is not in the game yet.
JoinLocked_NoDuplicateTest(g, player_id) ==
    LET g1 == [g EXCEPT !.players = Append(@, player_id)]
    IN  IF Len(g1.players) = 2
        THEN [g1 EXCEPT !.status = IN_PROGRESS, !.currentPlayerId = g1.players[1]]
        ELSE g1

\* join_game, the block under game.lock (routes.py 87-94).
JoinLocked(g, player_id) ==
    LET g1 == IF \A i \in 1..Len(g.players) : g.players[i] # player_id
              THEN [g EXCEPT !.players = Append(@, player_id)]
              ELSE g
    IN  IF Len(g1.players) = 2
        THEN [g1 EXCEPT !.status = IN_PROGRESS, !.currentPlayerId = g1.players[1]]
        ELSE g1

\* ------------------------------------------------------------------------
\* State
\* ------------------------------------------------------------------------

VARIABLES
    gobj,       \* every Game object constructed so far, by id
    games,      \* GameFactory._games: the ids stored (the values are gobj[id])
    next_id,    \* GameFactory._next_id
    pobj,       \* every Player object constructed so far, by id
    players,    \* PlayerFactory._players: the ids stored
    task        \* per caller: where its coroutine stands, its arguments and
                \* locals, and what its last call answered and logged

vars == <<gobj, games, next_id, pobj, players, task>>

NoName == [text |-> "", n |-> 0]

\* The object or list a registry method returned, when it returned one: the
\* Player (its fields as they were at the return, and whether this call
\* constructed it), or the list of all games or players.  A list is kept as
\* the set of the ids of its entries; `live` tells whether it is the
\* registry's own collection rather than a copy of it.
NoValue ==
    [player |-> Player(None, NoName, ""), constructed |-> FALSE,
     list |-> "", live |-> FALSE, gameIds |-> {}, playerIds |-> {}]

\* A response: the HTTP status the handler ends with (200, or the
\* HTTPException raised, or 500 for an exception that is not one), for
\* create_game the id of the game returned, and the last logger.error of
\* Game.make_move.
Response(code, detail, id) ==
    [code |-> code, detail |-> detail, id |-> id, log |-> "", val |-> NoValue]
NoResponse == Response(0, "", 0)

\* What a caller's last call was and what the caller could see when it
\* issued it: the Game it called, the number of games created so far, and
\* the arguments.  Set only by the callers of the Game-level and
\* registry-level specifications below.
NoPre == [game |-> Game(0, NoName), n |-> 0,
          playerId |-> None, row |-> 0, col |-> 0]

Idle == [pc |-> "idle", game |-> 0, playerId |-> None, row |-> 0, col |-> 0,
         name |-> NoName, email |-> "", stats |-> <<>>,
         res |-> NoResponse, pre |-> NoPre]

\* The call of task t returns or raises: the task keeps its answer.
Finish(t, res) ==
    [task EXCEPT ![t] = [Idle EXCEPT !.res = res, !.pre = task[t].pre]]

\* GameFactory() and PlayerFactory() as routes.py constructs them.
Init ==
    /\ gobj = <<>>
    /\ games = {}
    /\ next_id = 1
    /\ pobj = <<>>
    /\ players = {}
    /\ task = [t \in Tasks |-> Idle]

\* ------------------------------------------------------------------------
\* routes.py: create_game
\* ------------------------------------------------------------------------

\* body.name or f"Game {current_count + 1}"
GameName(name, current_count) ==
    IF name # "" THEN [text |-> name, n |-> 0]
    ELSE [text |-> "Game ", n |-> current_count + 1]

\* Game ids the create_game handlers now running will still allocate.
PendingCreates == Cardinality({t \in Tasks : task[t].pc = "create_game"})

\* Lines 34-38: get_game_count, then the name.
CreateStart(t, name) ==
    /\ task[t].pc = "idle"
    /\ next_id + PendingCreates <= MaxGames
    /\ task' = [task EXCEPT ![t] = [Idle EXCEPT !.pc = "create_game",
                        !.name = GameName(name, Cardinality(games))]]
    /\ UNCHANGED <<gobj, games, next_id, pobj, players>>

\* NextId that leaves the counter where it was.
NextId_NoIncrement(n) == n

\* self._next_id += 1
NextId(n) == n + 1

\* CreateGame that gives the new game the smallest id not stored.
CreateGame_SmallestFreeId(t) ==
    /\ task[t].pc = "create_game"
    /\ LET game_id == CHOOSE i \in 1..(Cardinality(games) + 1) :
                            i \notin games /\ \A k \in 1..(i-1) : k \in games
       IN  /\ next_id' = NextId(next_id)
           /\ gobj' = (game_id :> Game(game_id, task[t].name)) @@ gobj
           /\ games' = games \cup {game_id}
           /\ task' = Finish(t, Response(200, "created", game_id))
    /\ UNCHANGED <<pobj, players>>

\* GameFactory.create_game, and the handler's return (lines 39-46).
CreateGame(t) ==
    /\ task[t].pc = "create_game"
    /\ LET game_id == next_id
       IN  /\ next_id' = NextId(next_id)
           /\ gobj' = (game_id :> Game(game_id, task[t].name)) @@ gobj
           /\ games' = games \cup {game_id}
           /\ task' = Finish(t, Response(200, "created", game_id))
    /\ UNCHANGED <<pobj, players>>

\* ------------------------------------------------------------------------
\* routes.py: join_game
\* ------------------------------------------------------------------------

\* Lines 75-79: get_game, the 404 and the "Game is full" test.
JoinStart(t, id, playerId, name, email) ==
    /\ task[t].pc = "idle"
    /\ IF id \notin games
       THEN task' = Finish(t, Response(404, "Game not found", 0))
       ELSE IF Len(gobj[id].players) >= 2
       THEN task' = Finish(t, Response(400, "Game is full", 0))
       ELSE task' = [task EXCEPT ![t] = [Idle EXCEPT !.pc = "join_player",
                        !.game = id, !.playerId = playerId,
                        !.name = [text |-> name, n |-> 0], !.email = email]]
    /\ UNCHANGED <<gobj, games, next_id, pobj, players>>

\* get_or_create_player that constructs and stores a Player on every call.
get_or_create_player_AlwaysConstruct(P, stored, player_id, email, name) ==
    <<(player_id :> Player(player_id, name, email)) @@ P,
      stored \cup {player_id}, TRUE>>

\* PlayerFactory.get_or_create_player: the Player objects and the stored
\* ids afterwards, and whether the call constructed the Player it returns
\* (the call returns the object stored for player_id).
get_or_create_player(P, stored, player_id, email, name) ==
    IF player_id \in stored
    THEN <<P, stored, FALSE>>
    ELSE <<(player_id :> Player(player_id, name, email)) @@ P,
           stored \cup {player_id}, TRUE>>

\* Lines 81-83: PlayerFactory.get_or_create_player, then the
\* "Player already in the game" test.
JoinPlayer(t) ==
    /\ task[t].pc = "join_player"
    /\ LET id == task[t].playerId
           g == gobj[task[t].game]
           r == get_or_create_player(pobj, players, id, task[t].email, task[t].name)
       IN  /\ pobj' = r[1]
           /\ players' = r[2]
           /\ IF \E i \in 1..Len(g.players) : g.players[i] = id
              THEN task' = Finish(t, Response(400, "Player already in the game", 0))
              ELSE task' = [task EXCEPT ![t].pc = "join_lock"]
    /\ UNCHANGED <<gobj, games, next_id>>

\* Lines 87-95: the block under game.lock and the handler's return.
JoinLock(t) ==
    /\ task[t].pc = "join_lock"
    /\ gobj[task[t].game].lock = NoTask
    /\ gobj' = [gobj EXCEPT ![task[t].game] = JoinLocked(@, task[t].playerId)]
    /\ task' = Finish(t, Response(200, "joined", 0))
    /\ UNCHANGED <<games, next_id, pobj, players>>

\* ------------------------------------------------------------------------
\* routes.py: make_move
\* ------------------------------------------------------------------------

\* Lines 100-102: get_game and the 404.
MoveStart(t, id, playerId, row, col) ==
    /\ task[t].pc = "idle"
    /\ IF id \notin games
       THEN task' = Finish(t, Response(404, "Game not found", 0))
       ELSE task' = [task EXCEPT ![t] = [Idle EXCEPT !.pc = "move_lock",
                        !.game = id, !.playerId = playerId,
                        !.row = row, !.col = col]]
    /\ UNCHANGED <<gobj, games, next_id, pobj, players>>

\* The handler's answer to what Game.make_move returned or raised
\* (lines 103-111).
MoveResponse(ret) ==
    IF ret = "True" THEN Response(200, "Move made successfully", 0)
    ELSE IF ret = "False" THEN Response(400, "Invalid move", 0)
    ELSE Response(500, ret, 0)

\* MoveLock that leaves self.lock held when make_move raises.
MoveLock_RaiseKeepsLock(t) ==
    /\ task[t].pc = "move_lock"
    /\ gobj[task[t].game].lock = NoTask
    /\ LET r == make_move(gobj[task[t].game], task[t].playerId,
                          task[t].row, task[t].col)
       IN  IF r.ret = "end_game"
           THEN /\ gobj' = [gobj EXCEPT ![task[t].game] = [r.game EXCEPT !.lock = t]]
                /\ task' = [task EXCEPT ![t].pc = "move_end"]
           ELSE /\ gobj' = [gobj EXCEPT ![task[t].game] =
                                [r.game EXCEPT !.lock = IF r.ret = "ValueError"
                                                        THEN t ELSE NoTask]]
                /\ task' = Finish(t, [MoveResponse(r.ret) EXCEPT !.log = r.log])
    /\ UNCHANGED <<games, next_id, pobj, players>>

\* Game.make_move under self.lock, up to `await self.end_game()` or to the
\* return; the lock is released on return and on ValueError.
MoveLock(t) ==
    /\ task[t].pc = "move_lock"
    /\ gobj[task[t].game].lock = NoTask
    /\ LET r == make_move(gobj[task[t].game], task[t].playerId,
                          task[t].row, task[t].col)
       IN  IF r.ret = "end_game"
           THEN /\ gobj' = [gobj EXCEPT ![task[t].game] = [r.game EXCEPT !.lock = t]]
                /\ task' = [task EXCEPT ![t].pc = "move_end"]
           ELSE /\ gobj' = [gobj EXCEPT ![task[t].game] = r.game]
                /\ task' = Finish(t, [MoveResponse(r.ret) EXCEPT !.log = r.log])
    /\ UNCHANGED <<games, next_id, pobj, players>>

\* MoveEnd that returns with game.lock still held.
MoveEnd_KeepsLock(t) ==
    /\ task[t].pc = "move_end"
    /\ pobj' = end_game(gobj[task[t].game], pobj, 1)
    /\ task' = Finish(t, MoveResponse("True"))
    /\ UNCHANGED <<gobj, games, next_id, players>>

\* Game.end_game, the release of the lock and `return True`.
MoveEnd(t) ==
    /\ task[t].pc = "move_end"
    /\ pobj' = end_game(gobj[task[t].game], pobj, 1)
    /\ gobj' = [gobj EXCEPT ![task[t].game].lock = NoTask]
    /\ task' = Finish(t, MoveResponse("True"))
    /\ UNCHANGED <<games, next_id, players>>

\* ------------------------------------------------------------------------
\* routes.py: delete_game
\* ------------------------------------------------------------------------

\* Lines 129-133: get_game, the 404 and the active-game test.
DeleteStart(t, id) ==
    /\ task[t].pc = "idle"
    /\ IF id \notin games
       THEN task' = Finish(t, Response(404, "Game not found", 0))
       ELSE IF gobj[id].status = IN_PROGRESS
       THEN task' = Finish(t, Response(400, "Cannot delete an active game", 0))
       ELSE task' = [task EXCEPT ![t] = [Idle EXCEPT !.pc = "remove_game", !.game = id]]
    /\ UNCHANGED <<gobj, games, next_id, pobj, players>>

\* GameFactory.remove_game: self._games.pop(game_id, None) is not None.
\* The pair <<stored ids afterwards, returned bool>>.
remove_game(stored, game_id) == <<stored \ {game_id}, game_id \in stored>>

\* Lines 134-137.
DeleteRemove(t) ==
    /\ task[t].pc = "remove_game"
    /\ LET r == remove_game(games, task[t].game)
       IN  /\ games' = r[1]
           /\ task' = Finish(t, IF r[2] THEN Response(200, "deleted", 0)
                                ELSE Response(404, "Game not found", 0))
    /\ UNCHANGED <<gobj, next_id, pobj, players>>

\* ------------------------------------------------------------------------
\* The service: concurrent request handlers
\* ------------------------------------------------------------------------

PlayerIds == {"p1", "p2", "p3"}

\* The make_move requests the clients send: p1 plays the top row and one
\* further cell, p2 the middle row, p3 out-of-range coordinates.
MoveRequests ==
    ({"p1"} \X {<<0, 0>>, <<0, 1>>, <<0, 2>>, <<2, 0>>})
    \cup ({"p2"} \X {<<1, 0>>, <<1, 1>>, <<1, 2>>})
    \cup ({"p3"} \X {<<MATRIX_SIZE, 0>>, <<0, -1>>})

GameIds == 1..MaxGames

Next ==
    \E t \in Tasks :
        \/ CreateStart(t, "")
        \/ CreateGame(t)
        \/ \E id \in GameIds, p \in PlayerIds : JoinStart(t, id, p, p, p)
        \/ JoinPlayer(t)
        \/ JoinLock(t)
        \/ \E id \in GameIds, m \in MoveRequests :
                MoveStart(t, id, m[1], m[2][1], m[2][2])
        \/ MoveLock(t)
        \/ MoveEnd(t)
        \/ \E id \in GameIds : DeleteStart(t, id)
        \/ DeleteRemove(t)

Spec == Init /\ [][Next]_vars

\* ------------------------------------------------------------------------
\* Properties of the service
\* ------------------------------------------------------------------------

\* The task that runs the locked block of join_game in this step.
JoinTakesEffect(t) == task[t].pc = "join_lock" /\ task'[t].pc = "idle"

\* The play of game g has ended: its board holds a line or is full.  Cells
\* are never cleared, so this stays true once a terminal move was written.
HasCompleted(g) == check_if_game_is_over(g.board) # <<>>

\* No make_move is between its terminal write and its stat propagation.
Quiescent == \A id \in DOMAIN gobj : gobj[id].lock = NoTask

\* C1: in every reachable state a game's participant list has at most two
\* entries, whatever the interleaving of concurrent join requests.
C1_AtMostTwoParticipants ==
    \A id \in DOMAIN gobj : Len(gobj[id].players) <= 2

\* C2: a game's status only moves forward: COMPLETE stays COMPLETE, and
\* IN_PROGRESS never becomes PENDING.
C2_StatusOnlyForward ==
    [][\A id \in DOMAIN gobj :
          /\ gobj[id].status = COMPLETE => gobj'[id].status = COMPLETE
          /\ gobj[id].status = IN_PROGRESS => gobj'[id].status # PENDING]_vars

\* C3: a join that takes effect on a game that is IN_PROGRESS or COMPLETE
\* leaves its participant list, status and currentPlayerId unchanged.
C3_JoinOnStartedGameIsNoOp ==
    [][\A t \in Tasks :
          (JoinTakesEffect(t) /\ gobj[task[t].game].status \in {IN_PROGRESS, COMPLETE})
          => LET g == gobj[task[t].game]
                 h == gobj'[task[t].game]
             IN  /\ h.players = g.players
                 /\ h.status = g.status
                 /\ h.currentPlayerId = g.currentPlayerId]_vars

\* C6: whenever no completion is under way, every player's gamesPlayed is
\* the number of games it takes part in whose play has ended, and its
\* totalMoves the number of moves it made in those games.
C6_StatsOncePerCompletedGame ==
    Quiescent =>
        \A p \in DOMAIN pobj :
            LET done == {id \in DOMAIN gobj :
                            /\ HasCompleted(gobj[id])
                            /\ \E i \in 1..Len(gobj[id].players) :
                                    gobj[id].players[i] = p}
                RECURSIVE Sum(_)
                Sum(S) == IF S = {} THEN 0
                          ELSE LET id == CHOOSE x \in S : TRUE
                               IN  MovesInGame(gobj[id].moves, p) + Sum(S \ {id})
            IN  /\ pobj[p].stats.gamesPlayed = Cardinality(done)
                /\ pobj[p].stats.totalMoves = Sum(done)

\* The task whose Game.make_move takes the game's lock in this step.
MoveRuns(t) == task[t].pc = "move_lock" /\ task'[t].pc # "move_lock"

\* C10: a make_move call that meets one of the four rejections (status not
\* IN_PROGRESS, playerId not the current-turn player, row or col outside
\* [0, 3), target cell occupied) is answered as an invalid move (False, no
\* exception) and leaves the game and every player's stats unchanged.
C10_RejectedMoveChangesNothing ==
    [][\A t \in Tasks :
          LET g == gobj[task[t].game]
              r == task[t].row
              c == task[t].col
          IN  (/\ MoveRuns(t)
               /\ \/ g.status # IN_PROGRESS
                  \/ g.currentPlayerId # task[t].playerId
                  \/ r \notin 0..2
                  \/ c \notin 0..2
                  \/ g.board[r][c] # "")
              => /\ task'[t].pc = "idle"
                 /\ task'[t].res.code = 400
                 /\ task'[t].res.detail = "Invalid move"
                 /\ gobj'[task[t].game] = g
                 /\ pobj' = pobj]_vars

\* C10, witness: a call was rejected by the last of the four checks, on a
\* game in progress.
C10_Witness ==
    \E t \in Tasks :
        /\ task[t].res.detail = "Invalid move"
        /\ task[t].res.log = "occupied"

\* C9: a game whose status is IN_PROGRESS is never removed from the Game
\* Registry.
C9_ActiveGameNeverRemoved ==
    [][\A id \in games : gobj[id].status = IN_PROGRESS => id \in games']_vars

\* In this step task t's make_move is accepted and not terminal: it returns
\* True without running end_game.
MoveAcceptedNonTerminal(t) ==
    /\ MoveRuns(t)
    /\ task'[t].pc = "idle"
    /\ task'[t].res.code = 200

\* C12: after an accepted non-terminal make_move by participant p of a
\* two-participant game, currentPlayerId is the other participant's id; and
\* no two consecutive moves of a game's history are by the same player.
C12_TurnAlternates ==
    [][/\ \A t \in Tasks :
            LET g == gobj[task[t].game]
                h == gobj'[task[t].game]
                p == task[t].playerId
            IN  (MoveAcceptedNonTerminal(t) /\ Len(g.players) = 2)
                => /\ h.currentPlayerId # p
                   /\ \E i \in 1..2 : g.players[i] = h.currentPlayerId
       /\ \A id \in DOMAIN gobj :
            \A i \in 1..(Len(gobj'[id].moves) - 1) :
                gobj'[id].moves[i].playerId # gobj'[id].moves[i + 1].playerId]_vars

\* Player p is in the participant list of game g.
InGame(g, p) == \E i \in 1..Len(g.players) : g.players[i] = p

\* C19: a join that takes effect for a player not yet in a game with fewer
\* than two participants appends the player after the existing ones; when
\* the count becomes 2 the game is IN_PROGRESS with currentPlayerId the
\* first-joined player's id, and when it becomes 1 the game stays PENDING
\* with no current turn.
C19_JoinAppendsAndStarts ==
    [][\A t \in Tasks :
          LET g == gobj[task[t].game]
              h == gobj'[task[t].game]
              p == task[t].playerId
          IN  (/\ JoinTakesEffect(t)
               /\ ~InGame(g, p)
               /\ Len(g.players) < 2)
              => /\ h.players = g.players \o <<p>>
                 /\ Len(h.players) = 2 =>
                        /\ h.status = IN_PROGRESS
                        /\ h.currentPlayerId = h.players[1]
                 /\ Len(h.players) = 1 =>
                        /\ h.status = PENDING
                        /\ h.currentPlayerId = None]_vars

\* C19, witness: a second player has joined and the game has started with
\* the first-joined player on turn.
C19_Witness ==
    /\ 1 \in DOMAIN gobj
    /\ gobj[1].players = <<"p2", "p1">>
    /\ gobj[1].status = IN_PROGRESS
    /\ gobj[1].currentPlayerId = "p2"
    /\ gobj[1].moves = <<>>
    /\ \E t \in Tasks : task[t].res.detail = "joined"

\* C20: a player appears at most once in a game's participant list, and a
\* join that takes effect for a player who is already in the list leaves
\* the list unchanged.
C20_JoinIdempotent ==
    [][/\ \A id \in DOMAIN gobj' :
            \A i, j \in 1..Len(gobj'[id].players) :
                i # j => gobj'[id].players[i] # gobj'[id].players[j]
       /\ \A t \in Tasks :
            (JoinTakesEffect(t) /\ InGame(gobj[task[t].game], task[t].playerId))
            => gobj'[task[t].game].players = gobj[task[t].game].players]_vars

\* C20, witness: two concurrent joins with one player id have both taken
\* effect and the game holds one participant.
C20_Witness ==
    /\ 1 \in DOMAIN gobj
    /\ Len(gobj[1].players) = 1
    /\ \A t \in Tasks : task[t].res.detail = "joined"

\* In this step task t runs a method of the Player registry, that is, a
\* block under PlayerFactory._lock.
HoldsPlayerLock(t) ==
    /\ task[t].pc \in {"join_player", "get_or_create_player", "get_player",
                       "all_players", "remove_player", "get_player_count",
                       "update_player_stats"}
    /\ task'[t].pc # task[t].pc

\* C22: the stats of a player held by the Player Registry are mutated only
\* by a step that holds the Player Registry lock, so that stat propagation
\* at game completion excludes the reads made under that lock.
C22_StatsMutatedUnderPlayerLock ==
    [][(\E p \in players : pobj'[p].stats # pobj[p].stats)
       => \E t \in Tasks : HoldsPlayerLock(t)]_vars

\* The games whose lock task t holds.
HeldGameLocks(t) == {id \in DOMAIN gobj : gobj[id].lock = t}

\* In this step task t runs a method of the Game registry, that is, a block
\* under GameFactory._lock: the get_game or get_game_count a handler starts
\* with, create_game or remove_game.
HoldsGameRegistryLock(t) ==
    \/ task[t].pc = "idle" /\ task'[t] # task[t]
    \/ task[t].pc \in {"create_game", "remove_game"} /\ task'[t].pc # task[t].pc

\* In this step task t runs under a game's lock: the locked block of
\* join_game, make_move up to its await, or end_game and the release.
HoldsGameLock(t) ==
    /\ task[t].pc \in {"join_lock", "move_lock", "move_end"}
    /\ task'[t].pc # task[t].pc

\* The step of a call that is under way.
Proceed(t) ==
    \/ CreateGame(t)
    \/ JoinPlayer(t)
    \/ JoinLock(t)
    \/ MoveLock(t)
    \/ MoveEnd(t)
    \/ DeleteRemove(t)

C32_StatusMatchesParticipants ==
    \A id \in DOMAIN gobj :
        LET g == gobj[id]
        IN  /\ g.status = PENDING =>
                  /\ Len(g.players) < 2
                  /\ g.currentPlayerId = None
                  /\ g.moves = <<>>
            /\ g.status \in {IN_PROGRESS, COMPLETE} =>
                  /\ Len(g.players) = 2
                  /\ g.players[1] # g.players[2]
                  /\ g.currentPlayerId \in {g.players[1], g.players[2]}

\* The symbol of participant p of game g.
SymbolOf(g, p) == Symbol(PlayerIndex(g.players, p))

\* Some line of board b holds three cells with symbol m.
HasLineOf(b, m) ==
    \E i \in 0..2 :
        \/ \A j \in 0..2 : b[i][j] = m
        \/ \A j \in 0..2 : b[j][i] = m
        \/ \A j \in 0..2 : b[j][j] = m
        \/ \A j \in 0..2 : b[j][2 - j] = m

\* Board b is terminal: it holds a completed line or no empty cell.
Terminal(b) ==
    \/ HasLineOf(b, "X")
    \/ HasLineOf(b, "O")
    \/ \A i \in 0..2 : \A j \in 0..2 : b[i][j] # ""

\* C33: in every reachable state of a game winnerId is set only if status
\* is COMPLETE, and then it is the id of a participant whose symbol fills a
\* row, column or diagonal; and status is COMPLETE exactly when the board
\* is terminal.
C33_WinnerAndCompleteMatchBoard ==
    \A id \in DOMAIN gobj :
        LET g == gobj[id]
        IN  /\ g.winnerId # None =>
                  /\ g.status = COMPLETE
                  /\ \E i \in 1..Len(g.players) : g.players[i] = g.winnerId
                  /\ HasLineOf(g.board, SymbolOf(g, g.winnerId))
            /\ g.status = COMPLETE <=> Terminal(g.board)

\* The number of cells of board b that hold symbol m.
CountOf(b, m) == Cardinality({c \in (0..2) \X (0..2) : b[c[1]][c[2]] = m})

\* C35: in every reachable state of a game driven by interleaved join and
\* make_move requests every history entry was made by a participant, the
\* first entry by the first-joined participant, consecutive entries are by
\* different participants, and the board holds as many "X" as "O" or one
\* "X" more.
C35_HistoryAlternates ==
    \A id \in DOMAIN gobj :
        LET g == gobj[id]
        IN  /\ \A k \in 1..Len(g.moves) :
                  \E i \in 1..Len(g.players) : g.players[i] = g.moves[k].playerId
            /\ g.moves # <<>> => g.moves[1].playerId = g.players[1]
            /\ \A k \in 1..(Len(g.moves) - 1) :
                  g.moves[k].playerId # g.moves[k + 1].playerId
            /\ CountOf(g.board, "X") - CountOf(g.board, "O") \in {0, 1}

\* ------------------------------------------------------------------------
\* One game played by a single caller (tests/test_models.py)
\* ------------------------------------------------------------------------

\* Game(id=1, status=Status.IN_PROGRESS, players=[p1, p2],
\* currentPlayerId="p1") with Player(id=..., stats=PlayerStats()), as
\* test_make_move_winning_move constructs them.
InitGame ==
    /\ gobj = (1 :> [Game(1, NoName) EXCEPT !.status = IN_PROGRESS,
                                            !.players = <<"p1", "p2">>,
                                            !.currentPlayerId = "p1"])
    /\ games = {}
    /\ next_id = 1
    /\ pobj = [p \in {"p1", "p2"} |-> Player(p, NoName, "")]
    /\ players = {}
    /\ task = [t \in Tasks |-> Idle]

\* `await game.make_move(player_id, row, col)` by the only caller: the
\* lock is free, and make_move runs through its end_game to its return.
GameMove(player_id, row, col) ==
    /\ gobj[1].lock = NoTask
    /\ LET r == make_move(gobj[1], player_id, row, col)
       IN  /\ gobj' = [gobj EXCEPT ![1] = r.game]
           /\ pobj' = IF r.ret = "end_game" THEN end_game(r.game, pobj, 1) ELSE pobj
    /\ UNCHANGED <<games, next_id, players, task>>

NextGame ==
    \E p \in {"p1", "p2"}, row \in Idx, col \in Idx : GameMove(p, row, col)

SpecGame == InitGame /\ [][NextGame]_vars

\* C5: when a game completes as a draw (the terminal move fills the board
\* with no line, winnerId absent), each participant's gamesDrawn grows by
\* exactly 1 and its gamesWon and gamesLost are unchanged.
C5_DrawCountsAsDrawn ==
    [][\A id \in DOMAIN gobj :
          (/\ gobj[id].status = IN_PROGRESS
           /\ gobj'[id].status = COMPLETE
           /\ gobj'[id].winnerId = None)
          => \A i \in 1..Len(gobj[id].players) :
                LET old == pobj[gobj[id].players[i]].stats
                    new == pobj'[gobj[id].players[i]].stats
                IN  /\ new.gamesDrawn = old.gamesDrawn + 1
                    /\ new.gamesWon = old.gamesWon
                    /\ new.gamesLost = old.gamesLost]_vars

\* The eight lines of the 3x3 board, as sets of <<row, col>>.
Lines ==
    {{<<i, j>> : j \in 0..2} : i \in 0..2}
    \cup {{<<i, j>> : i \in 0..2} : j \in 0..2}
    \cup {{<<i, i>> : i \in 0..2}, {<<i, 2 - i>> : i \in 0..2}}

\* Some line of board b holds three equal non-empty cells.
HasLine(b) ==
    \E L \in Lines : \E m \in {"X", "O"} : \A c \in L : b[c[1]][c[2]] = m

\* Every cell of board b is occupied.
Full(b) == \A i \in 0..2 : \A j \in 0..2 : b[i][j] # ""

\* C13: an accepted make_move whose resulting board is terminal sets status
\* to COMPLETE, sets winnerId to the acting player's id when the board holds
\* a line and to none when it is a draw, and leaves currentPlayerId as it
\* was.
C13_TerminalMove ==
    [][LET g == gobj[1]
           h == gobj'[1]
       IN  (/\ Len(h.moves) = Len(g.moves) + 1
            /\ HasLine(h.board) \/ Full(h.board))
           => /\ h.status = COMPLETE
              /\ h.winnerId = IF HasLine(h.board)
                              THEN h.moves[Len(h.moves)].playerId
                              ELSE None
              /\ h.currentPlayerId = g.currentPlayerId]_vars

\* C13, witness: the second participant has completed a line.
C13_Witness ==
    /\ gobj[1].status = COMPLETE
    /\ gobj[1].winnerId = "p2"
    /\ gobj[1].currentPlayerId = "p2"
    /\ HasLine(gobj[1].board)

\* C14: a game played from the empty board by accepted moves in which no
\* line is ever completed and all 9 cells get filled is COMPLETE with no
\* winner after its ninth move.
C14_FullBoardNoLineIsDraw ==
    (Len(gobj[1].moves) = 9 /\ ~HasLine(gobj[1].board))
    => /\ gobj[1].status = COMPLETE
       /\ gobj[1].winnerId = None

\* C14, witness: nine moves were made and the board holds no line.
C14_Witness ==
    /\ Len(gobj[1].moves) = 9
    /\ Full(gobj[1].board)
    /\ ~HasLine(gobj[1].board)
    /\ gobj[1].winnerId = None

\* The float kept as the pair q has the integer value n.
IsNumber(q, n) == q[2] # 0 /\ q[1] = n * q[2]

\* C16: when a game completes with a winner, the winner gets gamesPlayed+1,
\* gamesWon+1 and totalMoves plus its own moves of the game, the other
\* participant gamesPlayed+1, gamesLost+1 and totalMoves plus its own
\* moves; and when A wins with 3 moves against B's 2 from fresh stats, A has
\* gamesWon 1, totalMoves 3, averageMovesPerWin 3, winRate 1 and B has
\* gamesLost 1, totalMoves 2.
C16_WinnerAndLoserStats ==
    [][LET g == gobj[1]
           h == gobj'[1]
       IN  (/\ g.status = IN_PROGRESS
            /\ h.status = COMPLETE
            /\ h.winnerId # None)
           => /\ \A i \in 1..Len(h.players) :
                    LET p == h.players[i]
                        old == pobj[p].stats
                        new == pobj'[p].stats
                        own == Cardinality({k \in 1..Len(h.moves) :
                                                h.moves[k].playerId = p})
                    IN  /\ new.gamesPlayed = old.gamesPlayed + 1
                        /\ new.totalMoves = old.totalMoves + own
                        /\ new.gamesDrawn = old.gamesDrawn
                        /\ IF p = h.winnerId
                           THEN /\ new.gamesWon = old.gamesWon + 1
                                /\ new.gamesLost = old.gamesLost
                           ELSE /\ new.gamesLost = old.gamesLost + 1
                                /\ new.gamesWon = old.gamesWon
              /\ (/\ h.winnerId = "p1"
                  /\ Len(h.moves) = 5
                  /\ pobj["p1"].stats = PlayerStats
                  /\ pobj["p2"].stats = PlayerStats)
                 => /\ pobj'["p1"].stats.gamesWon = 1
                    /\ pobj'["p1"].stats.totalMoves = 3
                    /\ IsNumber(pobj'["p1"].stats.averageMovesPerWin, 3)
                    /\ IsNumber(pobj'["p1"].stats.winRate, 1)
                    /\ pobj'["p2"].stats.gamesLost = 1
                    /\ pobj'["p2"].stats.totalMoves = 2]_vars

\* C16, witness: p1 has won with 3 moves against p2's 2 and the stats were
\* propagated.
C16_Witness ==
    /\ gobj[1].status = COMPLETE
    /\ gobj[1].winnerId = "p1"
    /\ Len(gobj[1].moves) = 5
    /\ pobj["p1"].stats.gamesWon = 1
    /\ pobj["p2"].stats.gamesLost = 1

\* C29: the line tests come before the full-board test: an accepted move
\* that fills the last empty cell and completes a row, column or diagonal
\* completes the game with winnerId the acting player, not as a draw, and
\* the winner's gamesWon and the other participant's gamesLost grow by one
\* while nobody's gamesDrawn changes.
C29_LineBeforeDraw ==
    [][LET g == gobj[1]
           h == gobj'[1]
           actor == h.moves[Len(h.moves)].playerId
       IN  (/\ g.status = IN_PROGRESS
            /\ Len(h.moves) = Len(g.moves) + 1
            /\ ~Full(g.board)
            /\ Full(h.board)
            /\ HasLine(h.board))
           => /\ h.status = COMPLETE
              /\ h.winnerId = actor
              /\ g.currentPlayerId = actor
              /\ \A i \in 1..Len(h.players) :
                    LET p == h.players[i]
                    IN  /\ pobj'[p].stats.gamesDrawn = pobj[p].stats.gamesDrawn
                        /\ pobj'[p].stats.gamesWon
                              = pobj[p].stats.gamesWon + (IF p = actor THEN 1 ELSE 0)
                        /\ pobj'[p].stats.gamesLost
                              = pobj[p].stats.gamesLost + (IF p = actor THEN 0 ELSE 1)]_vars

\* C29, witness: the ninth move filled the board and completed a line; the
\* game is won by p1, who made it.
C29_Witness ==
    /\ Len(gobj[1].moves) = 9
    /\ Full(gobj[1].board)
    /\ HasLine(gobj[1].board)
    /\ gobj[1].status = COMPLETE
    /\ gobj[1].winnerId = "p1"
    /\ pobj["p1"].stats.gamesWon = 1
    /\ pobj["p2"].stats.gamesLost = 1

\* The cells of board b that are not empty.
Occupied(b) == {c \in (0..2) \X (0..2) : b[c[1]][c[2]] # ""}

\* The cells the entries of history h name.
CellsOf(h) == {<<h[k].row, h[k].col>> : k \in 1..Len(h)}

\* C34: in a game started from the empty board a non-empty cell never
\* changes again, the number of non-empty cells equals the length of the
\* move history, no two history entries name the same cell, and the history
\* has at most 9 entries.
C34_CellsWriteOnce ==
    /\ [](/\ Cardinality(Occupied(gobj[1].board)) = Len(gobj[1].moves)
          /\ Cardinality(CellsOf(gobj[1].moves)) = Len(gobj[1].moves)
          /\ CellsOf(gobj[1].moves) = Occupied(gobj[1].board)
          /\ Len(gobj[1].moves) <= 9)
    /\ [][\A c \in Occupied(gobj[1].board) :
             gobj'[1].board[c[1]][c[2]] = gobj[1].board[c[1]][c[2]]]_vars

\* C34, witness: all nine cells were written, by nine history entries that
\* name nine different cells.
C34_Witness ==
    /\ Cardinality(Occupied(gobj[1].board)) = 9
    /\ Cardinality(CellsOf(gobj[1].moves)) = 9

\* ------------------------------------------------------------------------
\* One game called concurrently (Game.make_move under asyncio.gather)
\* ------------------------------------------------------------------------

\* The calls the concurrent callers make: p1 plays the top row or an
\* out-of-range row, p2 two cells of the middle row or a cell of p1's.
BurstRequests ==
    ({"p1"} \X {<<0, 0>>, <<0, 1>>, <<0, 2>>, <<MATRIX_SIZE, 0>>})
    \cup ({"p2"} \X {<<1, 0>>, <<1, 1>>, <<0, 0>>})

\* A caller creates the coroutine game.make_move(player_id, row, col); it
\* stands at `async with self.lock`.
CallMove(t, player_id, row, col) ==
    /\ task[t].pc = "idle"
    /\ task' = [task EXCEPT ![t] = [Idle EXCEPT !.pc = "move_lock",
                    !.game = 1, !.playerId = player_id, !.row = row, !.col = col,
                    !.pre = [NoPre EXCEPT !.game = gobj[1], !.playerId = player_id,
                                          !.row = row, !.col = col]]]
    /\ UNCHANGED <<gobj, games, next_id, pobj, players>>

NextMoves ==
    \E t \in Tasks :
        \/ \E m \in BurstRequests : CallMove(t, m[1], m[2][1], m[2][2])
        \/ MoveLock(t)
        \/ MoveEnd(t)

SpecMoves == InitGame /\ [][NextMoves]_vars

\* Every caller has made a call, all calls were issued against the same
\* state G of the game, in which it was IN_PROGRESS, and all have returned.
Burst ==
    /\ \A t \in Tasks :
          /\ task[t].pc = "idle"
          /\ task[t].res.code # 0
          /\ task[t].pre.game = task[1].pre.game
    /\ task[1].pre.game.status = IN_PROGRESS

\* The call c (player, row, col) is a legal move in state G of a game in
\* progress.
LegalIn(G, c) ==
    /\ G.currentPlayerId = c.playerId
    /\ c.row \in Idx
    /\ c.col \in Idx
    /\ G.board[c.row][c.col] = ""

\* The distinct moves among the calls that are legal in the pre-state.
LegalMoves ==
    {<<task[t].pre.playerId, task[t].pre.row, task[t].pre.col>> :
        t \in {u \in Tasks : LegalIn(task[1].pre.game, task[u].pre)}}

\* Exactly one call returned True, the others False, and the history grew
\* by exactly one move.
ExactlyOneAccepted ==
    /\ Cardinality({t \in Tasks : task[t].res.code = 200}) = 1
    /\ \A t \in Tasks : task[t].res.code \in {200, 400}
    /\ Len(gobj[1].moves) = Len(task[1].pre.game.moves) + 1

\* C4 as stated: K concurrent make_move calls on a game in progress, only
\* one move of which is legal in the pre-state, yield exactly one True and
\* one more move in the history.
C4_OneLegalMoveOneAcceptance ==
    (Burst /\ Cardinality(LegalMoves) = 1) => ExactlyOneAccepted

\* No call is a move of the participant who is not on turn to an empty cell
\* other than the cell of the legal move.
NoMoveInWaiting ==
    LET G == task[1].pre.game
    IN  \A t \in Tasks :
            LET c == task[t].pre
            IN  ~ /\ c.playerId # G.currentPlayerId
                  /\ \E i \in 1..Len(G.players) : G.players[i] = c.playerId
                  /\ c.row \in Idx
                  /\ c.col \in Idx
                  /\ G.board[c.row][c.col] = ""
                  /\ \A m \in LegalMoves : <<c.row, c.col>> # <<m[2], m[3]>>

\* C4, amended: as C4, provided no call is a move of the other participant
\* to another empty cell (such a call is out of turn in the pre-state and
\* becomes legal once the legal move is made).
C4_Amended ==
    (Burst /\ Cardinality(LegalMoves) = 1 /\ NoMoveInWaiting) => ExactlyOneAccepted

\* C4, witness: every caller called the same legal move (the turn-holder on
\* the same empty cell), and all calls have returned.
C4_Witness ==
    /\ Burst
    /\ Cardinality(LegalMoves) = 1
    /\ \A t \in Tasks : LegalIn(task[1].pre.game, task[t].pre)
    /\ ExactlyOneAccepted

\* In this step task t's make_move is accepted: it passes every check and
\* writes the move (it returns True now, or after end_game).
MoveAccepted(t) ==
    /\ MoveRuns(t)
    /\ \/ task'[t].pc = "move_end"
       \/ task'[t].res.code = 200

\* C17: within one game the Nth accepted move is appended at position N of
\* the history with sequence identifier N; identifiers are increasing and
\* gap-free, and an entry of the history is never modified or removed.
C17_HistoryAppendOnly ==
    [][LET old == gobj[1].moves
           new == gobj'[1].moves
       IN  /\ \A i \in 1..Len(old) : i <= Len(new) /\ new[i] = old[i]
           /\ \A i \in 1..Len(new) : new[i].id = i
           /\ \A t \in Tasks :
                 MoveRuns(t) =>
                    Len(new) = IF MoveAccepted(t) THEN Len(old) + 1 ELSE Len(old)]_vars

\* C17, witness: five moves were accepted and the fifth has identifier 5.
C17_Witness ==
    /\ Len(gobj[1].moves) = 5
    /\ gobj[1].moves[5].id = 5
    /\ \A t \in Tasks : task[t].pc = "idle"

\* C18: an accepted make_move by player p at (row, col) writes "X" into
\* that cell if p is the first-joined participant and "O" otherwise, changes
\* no other cell, and appends exactly one move record carrying p's id and
\* the same row and col.
C18_AcceptedMoveWritesOneCell ==
    [][\A t \in Tasks :
          MoveAccepted(t) =>
             LET g == gobj[1]
                 h == gobj'[1]
                 p == task[t].playerId
                 r == task[t].row
                 c == task[t].col
             IN  /\ h.board[r][c] = IF g.players[1] = p THEN "X" ELSE "O"
                 /\ \A i \in 0..2 : \A j \in 0..2 :
                        <<i, j>> # <<r, c>> => h.board[i][j] = g.board[i][j]
                 /\ Len(h.moves) = Len(g.moves) + 1
                 /\ h.moves[Len(h.moves)].playerId = p
                 /\ h.moves[Len(h.moves)].row = r
                 /\ h.moves[Len(h.moves)].col = c]_vars

\* C18, witness: the second participant's call at (1, 0) was accepted.
C18_Witness ==
    /\ gobj[1].board[1][0] = "O"
    /\ \E t \in Tasks :
          /\ task[t].res.code = 200
          /\ task[t].pre.playerId = "p2"
          /\ task[t].pre.row = 1
          /\ task[t].pre.col = 0

\* ------------------------------------------------------------------------
\* The registries called concurrently (tests/test_factory_threading.py)
\* ------------------------------------------------------------------------

\* A caller creates the coroutine factory.create_game(name); it stands at
\* `async with self._lock`.
CallCreateGame(t, name) ==
    /\ task[t].pc = "idle"
    /\ next_id + PendingCreates <= MaxRegistryGames
    /\ task' = [task EXCEPT ![t] = [Idle EXCEPT !.pc = "create_game",
                    !.name = [text |-> name, n |-> 0],
                    !.pre = [NoPre EXCEPT !.n = next_id - 1]]]
    /\ UNCHANGED <<gobj, games, next_id, pobj, players>>

\* A caller creates the coroutine factory.remove_game(game_id).
CallRemoveGame(t, game_id) ==
    /\ task[t].pc = "idle"
    /\ task' = [task EXCEPT ![t] = [Idle EXCEPT !.pc = "remove_game", !.game = game_id]]
    /\ UNCHANGED <<gobj, games, next_id, pobj, players>>

\* A caller creates the coroutine
\* factory.get_or_create_player(player_id, email, name).
CallGetOrCreatePlayer(t, player_id, email, name) ==
    /\ task[t].pc = "idle"
    /\ task' = [task EXCEPT ![t] = [Idle EXCEPT !.pc = "get_or_create_player",
                    !.playerId = player_id, !.email = email,
                    !.name = [text |-> name, n |-> 0]]]
    /\ UNCHANGED <<gobj, games, next_id, pobj, players>>

\* PlayerFactory.get_or_create_player under the registry lock.
GetOrCreatePlayer(t) ==
    /\ task[t].pc = "get_or_create_player"
    /\ LET r == get_or_create_player(pobj, players, task[t].playerId,
                                     task[t].email, task[t].name)
       IN  /\ pobj' = r[1]
           /\ players' = r[2]
           /\ task' = Finish(t, [Response(200, "player", 0) EXCEPT
                                    !.val.player = r[1][task[t].playerId],
                                    !.val.constructed = r[3]])
    /\ UNCHANGED <<gobj, games, next_id>>

\* A caller creates the coroutine
\* factory.update_player_stats(player_id, **stats); stats is the sequence
\* of the <<key, value>> pairs of the keyword arguments.
CallUpdatePlayerStats(t, player_id, stats) ==
    /\ task[t].pc = "idle"
    /\ task' = [task EXCEPT ![t] = [Idle EXCEPT !.pc = "update_player_stats",
                    !.playerId = player_id, !.stats = stats]]
    /\ UNCHANGED <<gobj, games, next_id, pobj, players>>

\* for key, value in stats.items(): if hasattr(player.stats, key):
\* setattr(player.stats, key, value)
RECURSIVE SetAttrs(_, _, _)
SetAttrs(s, stats, i) ==
    IF i > Len(stats) THEN s
    ELSE SetAttrs(IF stats[i][1] \in DOMAIN s
                  THEN [s EXCEPT ![stats[i][1]] = stats[i][2]]
                  ELSE s,
                  stats, i + 1)

\* PlayerFactory.update_player_stats under the registry lock.
UpdatePlayerStats(t) ==
    /\ task[t].pc = "update_player_stats"
    /\ IF task[t].playerId \in players
       THEN /\ pobj' = [pobj EXCEPT ![task[t].playerId].stats =
                                        SetAttrs(@, task[t].stats, 1)]
            /\ task' = Finish(t, Response(200, "True", 0))
       ELSE /\ pobj' = pobj
            /\ task' = Finish(t, Response(200, "False", 0))
    /\ UNCHANGED <<gobj, games, next_id, players>>

\* The keyword arguments of the update_player_stats calls.
StatsUpdates ==
    { <<<<"gamesWon", 1>>>>,
      <<<<"gamesPlayed", 1>>, <<"gamesLost", 1>>>>,
      <<<<"score", 1>>>> }

NextRegistry ==
    \E t \in Tasks :
        \/ CallCreateGame(t, "a")
        \/ CreateGame(t)
        \/ \E id \in 1..MaxRegistryGames : CallRemoveGame(t, id)
        \/ DeleteRemove(t)
        \/ \E p \in {"p1", "p2"} : CallGetOrCreatePlayer(t, p, p, p)
        \/ GetOrCreatePlayer(t)
        \/ \E stats \in StatsUpdates : CallUpdatePlayerStats(t, "p1", stats)
        \/ UpdatePlayerStats(t)

SpecRegistry == Init /\ [][NextRegistry]_vars

\* C7: every player held by the Player Registry has
\* gamesWon + gamesLost + gamesDrawn = gamesPlayed in every reachable state.
C7_OutcomesSumToPlayed ==
    \A p \in players :
        LET s == pobj[p].stats
        IN  s.gamesWon + s.gamesLost + s.gamesDrawn = s.gamesPlayed

\* Every caller has called create_game, all calls were issued when the
\* factory had created the same number n of games, and all have returned.
CreateBurst ==
    \A t \in Tasks :
        /\ task[t].pc = "idle"
        /\ task[t].res.detail = "created"
        /\ task[t].pre.n = task[1].pre.n

\* C8: K concurrent create_game calls on a factory that has created n games
\* return pairwise distinct ids that are exactly n+1 .. n+K, and all K
\* games are stored in the registry.
C8_ConcurrentCreatesSequentialIds ==
    CreateBurst =>
        LET n == task[1].pre.n
            ids == {task[t].res.id : t \in Tasks}
        IN  /\ \A t, u \in Tasks : t # u => task[t].res.id # task[u].res.id
            /\ ids = (n + 1)..(n + NumTasks)
            /\ \A id \in ids : id \in games /\ gobj[id].id = id

\* C8, witness: the callers all created their games concurrently on a
\* factory that had created a game before.
C8_Witness ==
    /\ CreateBurst
    /\ task[1].pre.n >= 1

\* The task whose create_game holds the registry lock in this step.
CreateRuns(t) == task[t].pc = "create_game" /\ task'[t].pc = "idle"

\* C23: game identifiers are never reused: the identifier create_game
\* returns is greater than the identifier of every game created before,
\* the games since removed included.
C23_GameIdsNeverReused ==
    [][\A t \in Tasks :
          CreateRuns(t) =>
             /\ task'[t].res.id \notin DOMAIN gobj
             /\ \A id \in DOMAIN gobj : task'[t].res.id > id
             /\ gobj'[task'[t].res.id].id = task'[t].res.id]_vars

\* C23, witness: game 1 was removed and a game created since has id 2.
C23_Witness ==
    /\ games = {2}
    /\ DOMAIN gobj = {1, 2}
    /\ \E t, u \in Tasks :
          /\ task[t].res.detail = "deleted"
          /\ task[u].res.detail = "created"
          /\ task[u].res.id = 2

\* ------------------------------------------------------------------------
\* One game whose turn may be held by a player who never joined
\* (tests/test_models.py, test_make_move_player_not_in_game)
\* ------------------------------------------------------------------------

\* Game(id=1, status=Status.IN_PROGRESS, players=[p1, p2],
\* currentPlayerId=c) with c = "p1" (test_make_move_wrong_player_turn) or
\* c = "p3" (test_make_move_player_not_in_game); board[0][0] is "" or set
\* to "X" after construction (test_make_move_cell_occupied).
InitStray ==
    /\ \E c \in {"p1", "p3"}, x \in {"", "X"} :
          gobj = (1 :> [Game(1, NoName) EXCEPT !.status = IN_PROGRESS,
                                               !.players = <<"p1", "p2">>,
                                               !.currentPlayerId = c,
                                               !.board[0][0] = x])
    /\ games = {}
    /\ next_id = 1
    /\ pobj = [p \in {"p1", "p2"} |-> Player(p, NoName, "")]
    /\ players = {}
    /\ task = [t \in Tasks |-> Idle]

\* The calls made on that game: p1 plays the top row, p2 the middle row,
\* p3 two cells and an out-of-range row.
StrayRequests ==
    ({"p1"} \X {<<0, 0>>, <<0, 1>>, <<0, 2>>})
    \cup ({"p2"} \X {<<1, 0>>, <<1, 1>>})
    \cup ({"p3"} \X {<<0, 0>>, <<1, 1>>, <<MATRIX_SIZE, 0>>})

NextStray ==
    \E t \in Tasks :
        \/ \E m \in StrayRequests : CallMove(t, m[1], m[2][1], m[2][2])
        \/ MoveLock(t)
        \/ MoveEnd(t)

SpecStray == InitStray /\ [][NextStray]_vars

\* C11: a make_move call that passes checks 1-4 (game IN_PROGRESS, playerId
\* the current-turn player, coordinates in range, cell empty) with a
\* playerId that is no participant's id raises ValueError instead of
\* returning False, leaves board, history, turn and status unchanged, and
\* leaves the game's lock free for later calls.
C11_StrayPlayerRaises ==
    [][\A t \in Tasks :
          LET g == gobj[task[t].game]
              r == task[t].row
              c == task[t].col
          IN  (/\ MoveRuns(t)
               /\ g.status = IN_PROGRESS
               /\ g.currentPlayerId = task[t].playerId
               /\ r \in 0..2 /\ c \in 0..2
               /\ g.board[r][c] = ""
               /\ \A i \in 1..Len(g.players) : g.players[i] # task[t].playerId)
              => /\ task'[t].pc = "idle"
                 /\ task'[t].res.detail = "ValueError"
                 /\ task'[t].res.code # 400
                 /\ gobj'[task[t].game].board = g.board
                 /\ gobj'[task[t].game].moves = g.moves
                 /\ gobj'[task[t].game].currentPlayerId = g.currentPlayerId
                 /\ gobj'[task[t].game].status = g.status
                 /\ gobj'[task[t].game].lock = NoTask]_vars

\* C11, witness: a call has raised ValueError and a later call on the same
\* game has taken the lock and returned.
C11_Witness ==
    \E t, u \in Tasks :
        /\ t # u
        /\ task[t].res.detail = "ValueError"
        /\ task[u].pc = "idle"
        /\ task[u].res.code = 400
        /\ task[u].pre.game.currentPlayerId = "p3"

\* The caller of task t is none of the participants of the game.
Stranger(t) ==
    \A i \in 1..Len(gobj[task[t].game].players) :
        gobj[task[t].game].players[i] # task[t].playerId

\* C28: make_move applies its checks in the order status, turn, coordinate
\* range, cell occupancy, membership: the call reports the first of the
\* four rejections that applies; a call by a non-participant returns False
\* without raising whenever the game is not IN_PROGRESS, or the caller is
\* not the current-turn player, or the coordinates are out of range, or
\* the cell is occupied, and ValueError is raised only by a call that
\* passes all four.
C28_ChecksBeforeMembership ==
    [][\A t \in Tasks :
          MoveRuns(t) =>
             LET g == gobj[task[t].game]
                 r == task[t].row
                 c == task[t].col
                 first == IF g.status # IN_PROGRESS THEN "not_active"
                          ELSE IF g.currentPlayerId # task[t].playerId THEN "not_your_turn"
                          ELSE IF r \notin 0..2 \/ c \notin 0..2 THEN "out_of_range"
                          ELSE IF g.board[r][c] # "" THEN "occupied"
                          ELSE ""
             IN  /\ first # "" =>
                       /\ task'[t].pc = "idle"
                       /\ task'[t].res.detail = "Invalid move"
                       /\ task'[t].res.log = first
                       /\ gobj' = gobj
                 /\ (task'[t].pc = "idle" /\ task'[t].res.detail = "ValueError")
                       => first = "" /\ Stranger(t)
                 /\ (first = "" /\ Stranger(t))
                       => task'[t].pc = "idle" /\ task'[t].res.detail = "ValueError"]_vars

\* C28, witness: p3, who holds the turn without being a participant, has
\* called make_move on the occupied cell (0, 0) and was answered False.
C28_Witness ==
    \E t \in Tasks :
        /\ task[t].pc = "idle"
        /\ task[t].pre.playerId = "p3"
        /\ task[t].pre.game.currentPlayerId = "p3"
        /\ task[t].pre.row = 0 /\ task[t].pre.col = 0
        /\ task[t].pre.game.board[0][0] = "X"
        /\ task[t].res.detail = "Invalid move"
        /\ task[t].res.log = "occupied"

\* ------------------------------------------------------------------------
\* check_if_game_is_over on every board (tests/test_models.py,
\* test_check_if_game_is_over_*)
\* ------------------------------------------------------------------------

\* Every 3x3 board over {empty, X, O}.
Boards == [Idx -> [Idx -> {"", "X", "O"}]]

\* game = Game(id=1) with game.board set to a board of the test's choice.
InitBoards ==
    /\ \E b \in Boards : gobj = (1 :> [Game(1, NoName) EXCEPT !.board = b])
    /\ games = {}
    /\ next_id = 1
    /\ pobj = <<>>
    /\ players = {}
    /\ task = [t \in Tasks |-> Idle]

\* What the caller keeps of the returned value: "None", "TIE", or the first
\* words of the line message.
OverKind(over) == IF over = <<>> THEN "None" ELSE over[1]

\* The row or column number of the line message, 0 when it has none.
OverIndex(over) == IF Len(over) = 2 THEN over[2] ELSE 0

\* result = game.check_if_game_is_over(), a synchronous call.
CheckOver(t) ==
    /\ task[t].pc = "idle"
    /\ task[t].res = NoResponse
    /\ LET over == check_if_game_is_over(gobj[1].board)
       IN  task' = [task EXCEPT ![t] =
                        [Idle EXCEPT !.res = Response(200, OverKind(over), OverIndex(over)),
                                     !.pre = [NoPre EXCEPT !.game = gobj[1]]]]
    /\ UNCHANGED <<gobj, games, next_id, pobj, players>>

NextBoards == \E t \in Tasks : CheckOver(t)

SpecBoards == InitBoards /\ [][NextBoards]_vars

\* C15: on every 3x3 board check_if_game_is_over reports a line exactly
\* when some row, column or diagonal holds three equal non-empty cells,
\* otherwise TIE exactly when every cell is occupied, otherwise nothing;
\* and the board is as it was before the call.
C15_OverClassifiesEveryBoard ==
    \A t \in Tasks :
        task[t].res.code # 0 =>
            LET b == task[t].pre.game.board
                r == task[t].res.detail
            IN  /\ r \in {"Row", "Column", "Main diagonal", "Anti-diagonal"}
                        <=> HasLine(b)
                /\ r = "TIE" <=> (~HasLine(b) /\ Full(b))
                /\ r = "None" <=> (~HasLine(b) /\ ~Full(b))
                /\ gobj[1].board = b

\* C15, witness: the call reported the anti-diagonal on a board whose only
\* line it is.
C15_Witness ==
    \E t \in Tasks :
        /\ task[t].res.detail = "Anti-diagonal"
        /\ gobj[1].board[0][2] = "O"
        /\ ~Full(gobj[1].board)

\* ------------------------------------------------------------------------
\* The Player registry called concurrently
\* (tests/test_factory_threading.py, TestPlayerFactoryThreadSafety)
\* ------------------------------------------------------------------------

\* A caller creates the coroutine factory.get_player(player_id).
CallGetPlayer(t, player_id) ==
    /\ task[t].pc = "idle"
    /\ task' = [task EXCEPT ![t] = [Idle EXCEPT !.pc = "get_player",
                                                !.playerId = player_id]]
    /\ UNCHANGED <<gobj, games, next_id, pobj, players>>

\* PlayerFactory.get_player: self._players.get(player_id).
GetPlayer(t) ==
    /\ task[t].pc = "get_player"
    /\ task' = Finish(t, IF task[t].playerId \in players
                         THEN [Response(200, "found", 0) EXCEPT
                                    !.val.player = pobj[task[t].playerId]]
                         ELSE Response(200, "None", 0))
    /\ UNCHANGED <<gobj, games, next_id, pobj, players>>

\* A caller creates the coroutine factory.all_players().
CallAllPlayers(t) ==
    /\ task[t].pc = "idle"
    /\ task' = [task EXCEPT ![t] = [Idle EXCEPT !.pc = "all_players"]]
    /\ UNCHANGED <<gobj, games, next_id, pobj, players>>

\* all_players that returns the registry's own collection of values.
all_players_LiveView(stored) ==
    [NoValue EXCEPT !.list = "players", !.live = TRUE, !.playerIds = stored]

\* list(self._players.values())
all_players(stored) ==
    [NoValue EXCEPT !.list = "players", !.live = FALSE, !.playerIds = stored]

\* PlayerFactory.all_players under the registry lock.
AllPlayers(t) ==
    /\ task[t].pc = "all_players"
    /\ task' = Finish(t, [Response(200, "list", 0) EXCEPT !.val = all_players(players)])
    /\ UNCHANGED <<gobj, games, next_id, pobj, players>>

\* A caller creates the coroutine factory.remove_player(player_id).
CallRemovePlayer(t, player_id) ==
    /\ task[t].pc = "idle"
    /\ task' = [task EXCEPT ![t] = [Idle EXCEPT !.pc = "remove_player",
                                                !.playerId = player_id]]
    /\ UNCHANGED <<gobj, games, next_id, pobj, players>>

\* remove_player that answers True whether or not the id was stored.
remove_player_AlwaysTrue(stored, player_id) == <<stored \ {player_id}, TRUE>>

\* PlayerFactory.remove_player: self._players.pop(player_id, None) is not
\* None.  The pair <<stored ids afterwards, returned bool>>.
remove_player(stored, player_id) == <<stored \ {player_id}, player_id \in stored>>

\* The bool a registry method returned, as the caller keeps it.
BoolResponse(b) == Response(200, IF b THEN "True" ELSE "False", 0)

\* PlayerFactory.remove_player under the registry lock.
RemovePlayer(t) ==
    /\ task[t].pc = "remove_player"
    /\ LET r == remove_player(players, task[t].playerId)
       IN  /\ players' = r[1]
           /\ task' = Finish(t, BoolResponse(r[2]))
    /\ UNCHANGED <<gobj, games, next_id, pobj>>

\* A caller creates the coroutine factory.get_player_count().
CallGetPlayerCount(t) ==
    /\ task[t].pc = "idle"
    /\ task' = [task EXCEPT ![t] = [Idle EXCEPT !.pc = "get_player_count"]]
    /\ UNCHANGED <<gobj, games, next_id, pobj, players>>

\* PlayerFactory.get_player_count: len(self._players).
GetPlayerCount(t) ==
    /\ task[t].pc = "get_player_count"
    /\ task' = Finish(t, Response(200, "count", Cardinality(players)))
    /\ UNCHANGED <<gobj, games, next_id, pobj, players>>

\* The names (and emails) the callers register players with.
PlayerNames == {"a", "b"}

NextPlayers ==
    \E t \in Tasks :
        \/ \E p \in {"p1", "p2"}, n \in PlayerNames : CallGetOrCreatePlayer(t, p, n, n)
        \/ GetOrCreatePlayer(t)
        \/ \E p \in {"p1", "p2"} : CallGetPlayer(t, p)
        \/ GetPlayer(t)
        \/ CallAllPlayers(t)
        \/ AllPlayers(t)
        \/ \E p \in {"p1", "p2"} : CallRemovePlayer(t, p)
        \/ RemovePlayer(t)
        \/ CallGetPlayerCount(t)
        \/ GetPlayerCount(t)
        \/ CallUpdatePlayerStats(t, "p1", <<<<"gamesPlayed", 1>>, <<"gamesLost", 1>>>>)
        \/ UpdatePlayerStats(t)

SpecPlayers == Init /\ [][NextPlayers]_vars

\* The task whose get_or_create_player holds the registry lock in this step.
GetOrCreateRuns(t) ==
    task[t].pc = "get_or_create_player" /\ task'[t].pc = "idle"

\* C21: get_or_create_player is first-registration-wins: after a call the
\* id is stored and the call returns the stored Player; a call for an id
\* that is stored constructs nothing, returns the instance stored before and
\* leaves its name, email and stats as they were, whatever its arguments; a
\* call for an id that is not stored stores a Player with the call's name
\* and email and fresh stats.
C21_FirstRegistrationWins ==
    [][\A t \in Tasks :
          GetOrCreateRuns(t) =>
             LET id == task[t].playerId
                 ret == task'[t].res.val
             IN  /\ id \in players'
                 /\ ret.player = pobj'[id]
                 /\ ret.player.id = id
                 /\ \A q \in players : q # id => q \in players' /\ pobj'[q] = pobj[q]
                 /\ IF id \in players
                    THEN /\ ~ret.constructed
                         /\ pobj'[id] = pobj[id]
                         /\ players' = players
                    ELSE /\ ret.constructed
                         /\ ret.player.name = task[t].name
                         /\ ret.player.email = task[t].email
                         /\ ret.player.stats = PlayerStats]_vars

\* C21, witness: a call with another name has returned the Player stored
\* under the first name, with the stats it had by then.
C21_Witness ==
    \E t \in Tasks :
        /\ task[t].res.detail = "player"
        /\ ~task[t].res.val.constructed
        /\ task[t].res.val.player.stats.gamesPlayed = 1
        /\ \E u \in Tasks :
              /\ task[u].res.detail = "player"
              /\ task[u].res.val.constructed
              /\ task[u].res.val.player.id = task[t].res.val.player.id

\* ------------------------------------------------------------------------
\* Both registries: lookups, lists, counts and removals
\* (tests/test_factory_threading.py, test_concurrent_operations_mixed)
\* ------------------------------------------------------------------------

\* A caller creates the coroutine factory.get_game(game_id).
CallGetGame(t, game_id) ==
    /\ task[t].pc = "idle"
    /\ task' = [task EXCEPT ![t] = [Idle EXCEPT !.pc = "get_game", !.game = game_id]]
    /\ UNCHANGED <<gobj, games, next_id, pobj, players>>

\* GameFactory.get_game: self._games.get(game_id); the id of the Game
\* returned, or None.
GetGame(t) ==
    /\ task[t].pc = "get_game"
    /\ task' = Finish(t, IF task[t].game \in games
                         THEN Response(200, "found", task[t].game)
                         ELSE Response(200, "None", 0))
    /\ UNCHANGED <<gobj, games, next_id, pobj, players>>

\* A caller creates the coroutine factory.get_all_games().
CallGetAllGames(t) ==
    /\ task[t].pc = "idle"
    /\ task' = [task EXCEPT ![t] = [Idle EXCEPT !.pc = "get_all_games"]]
    /\ UNCHANGED <<gobj, games, next_id, pobj, players>>

\* list(self._games.values())
get_all_games(stored) ==
    [NoValue EXCEPT !.list = "games", !.live = FALSE, !.gameIds = stored]

\* GameFactory.get_all_games under the registry lock.
GetAllGames(t) ==
    /\ task[t].pc = "get_all_games"
    /\ task' = Finish(t, [Response(200, "list", 0) EXCEPT !.val = get_all_games(games)])
    /\ UNCHANGED <<gobj, games, next_id, pobj, players>>

\* A caller creates the coroutine factory.get_game_count().
CallGetGameCount(t) ==
    /\ task[t].pc = "idle"
    /\ task' = [task EXCEPT ![t] = [Idle EXCEPT !.pc = "get_game_count"]]
    /\ UNCHANGED <<gobj, games, next_id, pobj, players>>

\* GameFactory.get_game_count: len(self._games).
GetGameCount(t) ==
    /\ task[t].pc = "get_game_count"
    /\ task' = Finish(t, Response(200, "count", Cardinality(games)))
    /\ UNCHANGED <<gobj, games, next_id, pobj, players>>

\* GameFactory.remove_game under the registry lock, called directly.
RemoveGame(t) ==
    /\ task[t].pc = "remove_game"
    /\ LET r == remove_game(games, task[t].game)
       IN  /\ games' = r[1]
           /\ task' = Finish(t, BoolResponse(r[2]))
    /\ UNCHANGED <<gobj, next_id, pobj, players>>

\* Game ids created and looked up by the callers of this section.
MaxLookupGames == 2

\* A caller creates the coroutine factory.create_game(name).
CallCreate(t, name) ==
    /\ task[t].pc = "idle"
    /\ next_id + PendingCreates <= MaxLookupGames
    /\ task' = [task EXCEPT ![t] = [Idle EXCEPT !.pc = "create_game",
                    !.name = [text |-> name, n |-> 0]]]
    /\ UNCHANGED <<gobj, games, next_id, pobj, players>>

NextLookups ==
    \E t \in Tasks :
        \/ CallCreate(t, "a")
        \/ CreateGame(t)
        \/ \E id \in 1..(MaxLookupGames + 1) : CallGetGame(t, id)
        \/ GetGame(t)
        \/ \E id \in 1..(MaxLookupGames + 1) : CallRemoveGame(t, id)
        \/ RemoveGame(t)
        \/ CallGetAllGames(t)
        \/ GetAllGames(t)
        \/ CallGetGameCount(t)
        \/ GetGameCount(t)
        \/ \E p \in {"p1", "p2"} : CallGetOrCreatePlayer(t, p, "a", "a")
        \/ GetOrCreatePlayer(t)
        \/ \E p \in {"p1", "p2"} : CallGetPlayer(t, p)
        \/ GetPlayer(t)
        \/ \E p \in {"p1", "p2"} : CallRemovePlayer(t, p)
        \/ RemovePlayer(t)
        \/ CallAllPlayers(t)
        \/ AllPlayers(t)
        \/ CallGetPlayerCount(t)
        \/ GetPlayerCount(t)

SpecLookups == Init /\ [][NextLookups]_vars

\* The ids of the entries of a returned list of games, when the registry
\* stores the games `stored`.
GameMembers(v, stored) == IF v.live THEN stored ELSE v.gameIds

\* The ids of the entries of a returned list of players, when the registry
\* stores the players `stored`.
PlayerMembers(v, stored) == IF v.live THEN stored ELSE v.playerIds

\* C24: get_all_games and all_players return a point-in-time copy: the list
\* returned holds exactly the entries stored while the call held the
\* registry lock, and no later create, get-or-create or remove changes the
\* membership of a list a caller holds.
C24_ListsAreSnapshots ==
    [][\A t \in Tasks :
          /\ (task[t].pc = "get_all_games" /\ task'[t].pc = "idle")
             => /\ task'[t].res.val.list = "games"
                /\ GameMembers(task'[t].res.val, games') = games
          /\ (task[t].pc = "all_players" /\ task'[t].pc = "idle")
             => /\ task'[t].res.val.list = "players"
                /\ PlayerMembers(task'[t].res.val, players') = players
          /\ (task[t].res.val.list = "games" /\ task'[t].res = task[t].res)
             => GameMembers(task'[t].res.val, games')
                    = GameMembers(task[t].res.val, games)
          /\ (task[t].res.val.list = "players" /\ task'[t].res = task[t].res)
             => PlayerMembers(task'[t].res.val, players')
                    = PlayerMembers(task[t].res.val, players)]_vars

\* C24, witness: a caller holds a list of players returned before a
\* player was registered or removed, and it differs from what is stored.
C24_Witness ==
    \E t \in Tasks :
        /\ task[t].res.val.list = "players"
        /\ task[t].res.val.playerIds = {"p1"}
        /\ players = {"p2"}

\* The task whose registry method `pc` runs (under the registry lock) and
\* returns in this step.
Returns(t, pc) == task[t].pc = pc /\ task'[t].pc = "idle"

\* C26: for both registries, get of an id that is not stored (never
\* created, or removed) returns None and raises nothing, and get of a
\* stored id returns its entry; remove returns True exactly when the id was
\* stored, False otherwise, and leaves the id not stored; count is the
\* number of stored entries, which grows by one exactly with a creation and
\* shrinks by one exactly with a removal that returns True.
C26_LookupRemoveCount ==
    [][\A t \in Tasks :
          /\ Returns(t, "get_game") =>
                /\ task'[t].res.code = 200
                /\ IF task[t].game \in games
                   THEN task'[t].res.detail = "found" /\ task'[t].res.id = task[t].game
                   ELSE task'[t].res.detail = "None"
          /\ Returns(t, "get_player") =>
                /\ task'[t].res.code = 200
                /\ IF task[t].playerId \in players
                   THEN /\ task'[t].res.detail = "found"
                        /\ task'[t].res.val.player.id = task[t].playerId
                   ELSE task'[t].res.detail = "None"
          /\ Returns(t, "remove_game") =>
                /\ task'[t].res.detail = (IF task[t].game \in games THEN "True" ELSE "False")
                /\ task[t].game \notin games'
                /\ games' = games \ {task[t].game}
          /\ Returns(t, "remove_player") =>
                /\ task'[t].res.detail = (IF task[t].playerId \in players THEN "True" ELSE "False")
                /\ task[t].playerId \notin players'
                /\ players' = players \ {task[t].playerId}
          /\ Returns(t, "get_game_count") =>
                task'[t].res.detail = "count" /\ task'[t].res.id = Cardinality(games)
          /\ Returns(t, "get_player_count") =>
                task'[t].res.detail = "count" /\ task'[t].res.id = Cardinality(players)
          /\ Cardinality(games') - Cardinality(games) =
                (IF Returns(t, "create_game") THEN 1
                 ELSE IF Returns(t, "remove_game") /\ task'[t].res.detail = "True" THEN -1
                 ELSE IF task'[t] # task[t] THEN 0
                 ELSE Cardinality(games') - Cardinality(games))
          /\ Cardinality(players') - Cardinality(players) =
                (IF Returns(t, "get_or_create_player") /\ task'[t].res.val.constructed THEN 1
                 ELSE IF Returns(t, "remove_player") /\ task'[t].res.detail = "True" THEN -1
                 ELSE IF task'[t] # task[t] THEN 0
                 ELSE Cardinality(players') - Cardinality(players))]_vars

\* C26, witness: game 1 and player p1 were created and removed; one caller
\* was answered False by a second removal, another None by a get, and a
\* count of 0 is consistent with the empty registries.
C26_Witness ==
    /\ next_id = 2
    /\ games = {}
    /\ "p1" \in DOMAIN pobj
    /\ players = {}
    /\ \E t, u \in Tasks :
          /\ task[t].res.detail = "False"
          /\ task[u].res.detail = "None"

\* C27: create_game stores and returns a Game with its new id in status
\* PENDING, with a 3x3 board of empty cells, no participants, no current
\* turn, no winner and no moves; get_game for a stored id returns the Game
\* stored under that id, which is the one create_game made, until a
\* remove_game takes it out, after which get_game returns None.
C27_CreatedGameIsFreshAndFound ==
    [][\A t \in Tasks :
          /\ Returns(t, "create_game") =>
                LET id == task'[t].res.id
                    g == gobj'[id]
                IN  /\ id \notin games /\ id \in games'
                    /\ g.id = id
                    /\ g.name = task[t].name
                    /\ g.status = PENDING
                    /\ DOMAIN g.board = 0..2
                    /\ \A r \in 0..2 : DOMAIN g.board[r] = 0..2
                    /\ \A r \in 0..2, c \in 0..2 : g.board[r][c] = ""
                    /\ g.players = <<>>
                    /\ g.currentPlayerId = None
                    /\ g.winnerId = None
                    /\ g.moves = <<>>
          /\ \A id \in games :
                /\ id \in DOMAIN gobj
                /\ id \in games' => gobj'[id] = gobj[id]
                /\ id \notin games' => Returns(t, "remove_game") \/ task'[t] = task[t]
          /\ Returns(t, "get_game") =>
                IF task[t].game \in games
                THEN task'[t].res.detail = "found" /\ task'[t].res.id = task[t].game
                ELSE task'[t].res.detail = "None"]_vars

\* C27, witness: two games were created and the second removed; get_game
\* still returns the first, as create_game made it.
C27_Witness ==
    /\ next_id = 3
    /\ games = {1}
    /\ gobj[1].status = PENDING
    /\ gobj[1].board = EmptyBoard
    /\ \E t, u \in Tasks :
          /\ task[t].res.detail = "found"
          /\ task[t].res.id = 1
          /\ task[u].res.detail = "True"

\* ------------------------------------------------------------------------
\* Player.update_stats called repeatedly on one player
\* (tests/test_models.py, test_update_stats_multiple_games)
\* ------------------------------------------------------------------------

\* update_stats is called while gamesPlayed < MaxStatsUpdates.
MaxStatsUpdates == 7

\* player = Player(id="player_1", stats=PlayerStats())
InitStats ==
    /\ gobj = <<>>
    /\ games = {}
    /\ next_id = 1
    /\ pobj = ("p1" :> Player("p1", NoName, ""))
    /\ players = {}
    /\ task = [t \in Tasks |-> Idle]

\* player.update_stats(won=won, moves=moves, draw=draw), a synchronous call.
UpdateStats(won, moves, draw) ==
    /\ pobj["p1"].stats.gamesPlayed < MaxStatsUpdates
    /\ pobj' = [pobj EXCEPT !["p1"].stats = update_stats(@, won, moves, draw)]
    /\ UNCHANGED <<gobj, games, next_id, players, task>>

\* The move counts passed to update_stats.
MoveCounts == {4, 5}

NextStats ==
    \E won \in BOOLEAN, moves \in MoveCounts, draw \in BOOLEAN :
        UpdateStats(won, moves, draw)

SpecStats == InitStats /\ [][NextStats]_vars

\* Floats.  A metric kept as the pair <<a, b>> is the IEEE 754 double
\* nearest to a / b (Python's a / b on ints).  For the small counters of
\* this module two such doubles are equal exactly when the quotients are.
FloatEq(q, a, b) == b # 0 /\ q[1] * b = q[2] * a

RECURSIVE Pow2(_)
Pow2(k) == IF k = 0 THEN 1 ELSE 2 * Pow2(k - 1)

\* 2^e <= a / b, for b > 0.
AtLeastPow2(e, a, b) ==
    IF e >= 0 THEN b * Pow2(e) <= a ELSE b <= a * Pow2(-e)

\* floor(log2(a / b)) for a, b > 0.
Log2Floor(a, b) ==
    CHOOSE e \in -20..20 : AtLeastPow2(e, a, b) /\ ~AtLeastPow2(e + 1, a, b)

\* k further steps of the binary long division by d: the remainder and the
\* last quotient bit.
RECURSIVE LongDivision(_, _, _, _)
LongDivision(rem, d, last, k) ==
    IF k = 0 THEN <<rem, last>>
    ELSE IF 2 * rem >= d
    THEN LongDivision(2 * rem - d, d, 1, k - 1)
    ELSE LongDivision(2 * rem, d, 0, k - 1)

\* The scaled quotient n0 / d0 in [1, 2) of a / b, a, b > 0.
Scaled(a, b) ==
    LET e == Log2Floor(a, b)
    IN  IF e >= 0 THEN <<a, b * Pow2(e)>> ELSE <<a * Pow2(-e), b>>

\* Rounding error of the double a / b: with m the 53-bit significand of the
\* double (round to nearest, ties to even), n0 * 2^52 - m * d0.
RoundingError(a, b) ==
    LET d == Scaled(a, b)[2]
        x == LongDivision(Scaled(a, b)[1] - d, d, 1, 52)
    IN  IF 2 * x[1] > d \/ (2 * x[1] = d /\ x[2] = 1) THEN x[1] - d ELSE x[1]

\* Python's `q * n == m` for the double q = a / b and ints n, m >= 0: the
\* product of the double and n, rounded to the nearest double, is m.
FloatTimesIs(q, n, m) ==
    LET a == q[1]
        b == q[2]
    IN  IF a = 0 \/ n = 0 THEN m = 0
        ELSE IF a * n # m * b THEN FALSE
        ELSE LET r == RoundingError(a, b)
                 absr == IF r < 0 THEN -r ELSE r
                 d == Scaled(a, b)[2]
                 km == Log2Floor(m, 1)
                 ex == Log2Floor(a, b) + 1
                         + (IF r > 0 /\ m = Pow2(km) THEN 1 ELSE 0)
             IN  \/ r = 0
                 \/ IF ex >= 0
                    THEN absr * n * Pow2(ex) <= d * Pow2(km)
                    ELSE absr * n <= d * Pow2(km) * Pow2(-ex)

\* C25 as stated: after every stats update averageMovesPerWin * gamesWon ==
\* totalMoves when gamesWon > 0 and averageMovesPerWin == 0 when gamesWon ==
\* 0, winRate * gamesPlayed == gamesWon when gamesPlayed > 0, and
\* efficiency == averageMovesPerWin.
C25_MetricsTimesCounters ==
    LET s == pobj["p1"].stats
    IN  /\ s.gamesWon > 0 => FloatTimesIs(s.averageMovesPerWin, s.gamesWon, s.totalMoves)
        /\ s.gamesWon = 0 => FloatEq(s.averageMovesPerWin, 0, 1)
        /\ s.gamesPlayed > 0 => FloatTimesIs(s.winRate, s.gamesPlayed, s.gamesWon)
        /\ s.efficiency = s.averageMovesPerWin

\* C25, amended: after every stats update averageMovesPerWin is the float
\* quotient totalMoves / gamesWon when gamesWon > 0 and 0 when gamesWon = 0,
\* winRate is the float quotient gamesWon / gamesPlayed when gamesWon > 0
\* and 0 when gamesWon = 0, and efficiency == averageMovesPerWin.
C25_Amended ==
    LET s == pobj["p1"].stats
    IN  /\ s.gamesWon > 0 => FloatEq(s.averageMovesPerWin, s.totalMoves, s.gamesWon)
        /\ s.gamesWon = 0 => FloatEq(s.averageMovesPerWin, 0, 1)
        /\ s.gamesWon > 0 => FloatEq(s.winRate, s.gamesWon, s.gamesPlayed)
        /\ s.gamesWon = 0 => FloatEq(s.winRate, 0, 1)
        /\ s.efficiency = s.averageMovesPerWin

\* C25, witness: the player has won 7 games with 29 moves in all.
C25_Witness ==
    /\ pobj["p1"].stats.gamesWon = 7
    /\ pobj["p1"].stats.totalMoves = 29
    /\ pobj["p1"].stats.averageMovesPerWin = <<29, 7>>

\* ------------------------------------------------------------------------
\* The service and the registry lookups under fair scheduling
\* ------------------------------------------------------------------------

\* The registries as routes.py constructs them, or holding game 1 between
\* p1 and p2 with the turn set to p3, who never joined
\* (tests/test_models.py, test_make_move_player_not_in_game).
InitLive ==
    \/ Init
    \/ /\ gobj = (1 :> [Game(1, NoName) EXCEPT !.status = IN_PROGRESS,
                                               !.players = <<"p1", "p2">>,
                                               !.currentPlayerId = "p3"])
       /\ games = {1}
       /\ next_id = 2
       /\ pobj = [p \in {"p1", "p2"} |-> Player(p, NoName, "")]
       /\ players = {"p1", "p2"}
       /\ task = [t \in Tasks |-> Idle]

\* The make_move requests: p1 plays the top row, p2 two cells of the middle
\* row, p3 the first cell.
LiveRequests ==
    ({"p1"} \X {<<0, 0>>, <<0, 1>>, <<0, 2>>})
    \cup ({"p2"} \X {<<1, 0>>, <<1, 1>>})
    \cup ({"p3"} \X {<<0, 0>>})

\* The requests and registry calls the callers start.
StartLive(t) ==
    \/ CreateStart(t, "")
    \/ \E p \in {"p1", "p2"} : JoinStart(t, 1, p, p, p)
    \/ \E m \in LiveRequests : MoveStart(t, 1, m[1], m[2][1], m[2][2])
    \/ DeleteStart(t, 1)
    \/ CallGetGame(t, 1)
    \/ CallGetAllGames(t)
    \/ CallGetGameCount(t)

\* The steps of a started operation that wait for no lock held across an
\* await: the registry blocks and end_game.
RunLive(t) ==
    \/ CreateGame(t)
    \/ JoinPlayer(t)
    \/ MoveEnd(t)
    \/ DeleteRemove(t)
    \/ GetGame(t)
    \/ GetAllGames(t)
    \/ GetGameCount(t)

NextLive ==
    \E t \in Tasks :
        \/ StartLive(t)
        \/ RunLive(t)
        \/ JoinLock(t)
        \/ MoveLock(t)

\* The event loop runs every ready coroutine, and a coroutine waiting at
\* `async with lock` is ready whenever the lock is free.
FairLive ==
    \A t \in Tasks :
        /\ WF_vars(RunLive(t))
        /\ WF_vars(JoinLock(t))
        /\ WF_vars(MoveLock(t))

SpecLive == InitLive /\ [][NextLive]_vars /\ FairLive

\* C31: under fair scheduling every started operation eventually returns a
\* result or raises the structural error, and every game lock that is held
\* is eventually released by its holder, also when make_move raised before.
C31_EveryOperationReturns ==
    /\ \A t \in Tasks :
          (task[t].pc # "idle") ~> (task[t].pc = "idle" /\ task[t].res.code # 0)
    /\ \A t \in Tasks :
          (\E id \in DOMAIN gobj : gobj[id].lock = t)
             ~> (\A id \in DOMAIN gobj : gobj[id].lock # t)

\* C31, witness: one make_move has raised ValueError, the game's lock is
\* free and another make_move stands at the lock.
C31_Witness ==
    \E t, u \in Tasks :
        /\ task[t].pc = "idle"
        /\ task[t].res.detail = "ValueError"
        /\ task[u].pc = "move_lock"
        /\ gobj[task[u].game].lock = NoTask

=============================================================================
